---- MODULE Spec2Model ----
(***************************************************************************)
(* The two custom unit operations of the lactic-acid biorefinery:          *)
(* LacticAcidFermentation (src/units/fermentation.py) and                  *)
(* LacticAcidEvaporator (src/.ipynb_checkpoints/evaporation-checkpoint.py).*)
(*                                                                         *)
(* A state is one unit instance (of either class) together with the        *)
(* streams bound to it.  The flowsheet engine is the environment: it       *)
(* rebinds the contents of the inbound stream and invokes _run, _design    *)
(* and _cost in any order.  The driver's report over the simulated        *)
(* flowsheet is a second process, with a specification of its own.         *)
(*                                                                         *)
(* Numbers: Python floats are modelled as exact rationals <<n, d>> in      *)
(* lowest terms (d > 0); rounding of IEEE doubles is outside the model.    *)
(* Non-integer powers x ** e are kept symbolically (see Pow).              *)
(***************************************************************************)
EXTENDS Integers, Sequences, FiniteSets, TLC

VARIABLES
    cls,                     \* class of the unit: "Fermentation" | "Evaporation"
    params,                  \* attributes set by __init__ (tau, conversion, ... / V, P)
    ins,                     \* self.ins  : sequence of inbound streams
    outs,                    \* self.outs : sequence of outbound streams
    design_results,          \* self.design_results (dict)
    baseline_purchase_costs, \* self.baseline_purchase_costs (dict)
    purchase_costs,          \* self.purchase_costs (dict)
    installed_costs,         \* self.installed_costs (dict)
    heat_utilities,          \* self.heat_utilities (tuple)
    evaporation_duty,        \* self._evaporation_duty (absent until _design)
    err,                     \* exception raised by the last invoked step, or "none"
    last,                    \* the last thing that happened to the unit
    report                   \* the driver's report after a simulation (run_simulation)

vars == <<cls, params, ins, outs, design_results, baseline_purchase_costs,
          purchase_costs, installed_costs, heat_utilities, evaporation_duty,
          err, last, report>>

-----------------------------------------------------------------------------
(* Exact rational arithmetic standing for Python float arithmetic.         *)

Abs(n) == IF n < 0 THEN -n ELSE n

RECURSIVE GCD(_, _)
GCD(a, b) == IF b = 0 THEN a ELSE GCD(b, a % b)

\* n/d in lowest terms with a positive denominator (d # 0)
Rat(n, d) ==
    LET g == GCD(Abs(n), Abs(d))
        s == IF d < 0 THEN -1 ELSE 1
    IN  <<(s * n) \div g, (s * d) \div g>>

Int2Rat(n) == <<n, 1>>
Zero == <<0, 1>>
One  == <<1, 1>>

RAdd(a, b) == Rat(a[1] * b[2] + b[1] * a[2], a[2] * b[2])
RNeg(a)    == <<-a[1], a[2]>>
RSub(a, b) == RAdd(a, RNeg(b))
\* cross-cancel first so that intermediate products stay small
RMul(a, b) ==
    LET x == Rat(a[1], b[2])
        y == Rat(b[1], a[2])
    IN  Rat(x[1] * y[1], x[2] * y[2])
\* b # Zero: the callers guard it as the code does
RDiv(a, b) == RMul(a, Rat(b[2], b[1]))
RLt(a, b)  == a[1] * b[2] < b[1] * a[2]
RLe(a, b)  == a[1] * b[2] <= b[1] * a[2]
RGt(a, b)  == RLt(b, a)
\* np.ceil
Ceil(a) == Int2Rat(-((-a[1]) \div a[2]))

\* Python's a / b: ZeroDivisionError when b is zero
PyDiv(a, b) ==
    IF b = Zero THEN [raised |-> TRUE, val |-> Zero]
    ELSE [raised |-> FALSE, val |-> RDiv(a, b)]

-----------------------------------------------------------------------------
(* Values of the cost correlations.  x ** e with a non-integer e has no    *)
(* rational value, so a cost is kept as a formal sum of c * b**e terms:    *)
(* a function from <<b, e>> (b > 0) to the non-zero coefficient c.  A      *)
(* negative base gives no real number (nan for numpy operands, a complex   *)
(* number for Python floats); nonreal marks that, and it is kept by * and  *)
(* +.  No exception is raised in either case.                              *)

KeyOne == <<One, One>>

PZero   == [nonreal |-> FALSE, terms |-> [k \in {} |-> Zero]]
NonReal == [nonreal |-> TRUE,  terms |-> [k \in {} |-> Zero]]
PConst(r) ==
    [nonreal |-> FALSE,
     terms |-> [k \in (IF r = Zero THEN {} ELSE {KeyOne}) |-> r]]

\* b ** e for an exponent e > 0
Pow(b, e) ==
    IF b = Zero THEN PZero
    ELSE IF RLt(b, Zero) THEN NonReal
    ELSE IF b = One THEN PConst(One)
    ELSE [nonreal |-> FALSE, terms |-> [k \in {<<b, e>>} |-> One]]

\* x * r for a rational r
PScale(x, r) ==
    IF x.nonreal THEN NonReal
    ELSE IF r = Zero THEN PZero
    ELSE [nonreal |-> FALSE, terms |-> [k \in DOMAIN x.terms |-> RMul(x.terms[k], r)]]

PAdd(x, y) ==
    IF x.nonreal \/ y.nonreal THEN NonReal
    ELSE LET K == DOMAIN x.terms \cup DOMAIN y.terms
             c(k) == RAdd(IF k \in DOMAIN x.terms THEN x.terms[k] ELSE Zero,
                          IF k \in DOMAIN y.terms THEN y.terms[k] ELSE Zero)
         IN  [nonreal |-> FALSE,
              terms |-> [k \in {j \in K : c(j) # Zero} |-> c(k)]]

-----------------------------------------------------------------------------
(* Streams (thermosteam.Stream): molar flows per species [kmol/hr], T [K],  *)
(* P [Pa] and phase.                                                       *)

Species == {"Water", "Glucose", "LacticAcid", "Ethanol", "WWTsludge"}

NoFlow == [s \in Species |-> Zero]

Flow(w, g, la, e, x) ==
    [s \in Species |->
        CASE s = "Water"      -> w
          [] s = "Glucose"    -> g
          [] s = "LacticAcid" -> la
          [] s = "Ethanol"    -> e
          [] s = "WWTsludge"  -> x]

\* 25 C, 1 atm, liquid: a stream created without contents
EmptyStream ==
    [imol |-> NoFlow, T |-> Rat(29815, 100), P |-> Int2Rat(101325), phase |-> "l"]

\* Stream.copy_flow(other): the molar flows of other, own T, P and phase kept
copy_flow(self, other) == [self EXCEPT !.imol = other.imol]

\* Stream.empty(): no flow
empty(self) == [self EXCEPT !.imol = NoFlow]

\* Molar volumes [m3/kmol] standing for the property package's liquid
\* volume model: F_vol is the flow-weighted sum of positive molar volumes.
MolarVolume ==
    [s \in Species |->
        CASE s = "Water"      -> Rat(9, 500)
          [] s = "Glucose"    -> Rat(3, 25)
          [] s = "LacticAcid" -> Rat(3, 40)
          [] s = "Ethanol"    -> Rat(3, 50)
          [] s = "WWTsludge"  -> Rat(1, 50)]

\* Stream.F_vol [m3/hr]
F_vol(stream) ==
    RAdd(RMul(stream.imol["Water"], MolarVolume["Water"]),
    RAdd(RMul(stream.imol["Glucose"], MolarVolume["Glucose"]),
    RAdd(RMul(stream.imol["LacticAcid"], MolarVolume["LacticAcid"]),
    RAdd(RMul(stream.imol["Ethanol"], MolarVolume["Ethanol"]),
         RMul(stream.imol["WWTsludge"], MolarVolume["WWTsludge"])))))

\* d[k] = v on a dict
Put(d, k, v) == [x \in DOMAIN d \cup {k} |-> IF x = k THEN v ELSE d[x]]

EmptyDict == [k \in {} |-> Zero]

-----------------------------------------------------------------------------
(* Inputs: the parameters a unit is constructed with and the contents the  *)
(* engine puts into the inbound stream.                                    *)

MaxConvSteps == 1      \* conversion and V range over k / MaxConvSteps, k = 0 .. MaxConvSteps
MaxProductSteps == 1   \* reported products carry k * 1000 kg/hr lactic acid, k = 1 .. MaxProductSteps
MaxFeedSteps == 1      \* mixed feeds carry k * 50 kmol/hr glucose, k = 1 .. MaxFeedSteps

UnitFractions == {Rat(k, MaxConvSteps) : k \in 0..MaxConvSteps}

\* in range [0, 1] (with the default 0.90) and out of range
Conversions   == UnitFractions \cup {Rat(9, 10), Rat(3, 2)}
\* in range [0, 0.98] (with the default 0.08) and out of range
BiomassYields == {Zero, Rat(2, 25), Rat(49, 50), Rat(6, 5)}
Taus          == {Int2Rat(48), Zero, Int2Rat(-1)}
\* in range [0, 1] (with the default 0.70) and out of range
EvapFractions == UnitFractions \cup {Rat(7, 10), Rat(3, 2)}
Pressures     == {Int2Rat(20000)}

FermParams ==
    {[tau |-> t, conversion |-> c, biomass_yield |-> b] :
        t \in Taus, c \in Conversions, b \in BiomassYields}
EvapParams == {[V |-> v, P |-> p] : v \in EvapFractions, p \in Pressures}

FeedStream(imol, T) ==
    [imol |-> imol, T |-> T, P |-> Int2Rat(101325), phase |-> "l"]

Feeds ==
    {FeedStream(NoFlow, Rat(31015, 100)),
     FeedStream(Flow(Int2Rat(400), Int2Rat(100), Zero, Zero, Zero), Rat(31015, 100)),
     FeedStream(Flow(Int2Rat(1000), Zero, Zero, Zero, Zero), Rat(30315, 100))}
    \cup
    {FeedStream(Flow(Int2Rat(400), Int2Rat(50 * k), Int2Rat(10), Int2Rat(2), Int2Rat(5)),
                Rat(31015, 100)) : k \in 1..MaxFeedSteps}

-----------------------------------------------------------------------------
(* LacticAcidFermentation                                                  *)
(* Each method is a function from the unit before the call to the unit     *)
(* after it; err is the exception the call raised, or "none".              *)

\* mutant: the unreacted fraction taken for the reacted one
glucose_reacted_inverted(feed, p) ==
    RMul(feed.imol["Glucose"], RSub(One, p.conversion))

glucose_reacted(feed, p) == RMul(feed.imol["Glucose"], p.conversion)

\* mutant: the tabulated molar mass of glucose (180.16) instead of 180
glucose_mass_reacted_tabulated(feed, p) ==
    RMul(glucose_reacted(feed, p), Rat(18016, 100))

glucose_mass_reacted(feed, p) == RMul(glucose_reacted(feed, p), Int2Rat(180))

biomass_mass(feed, p) == RMul(glucose_mass_reacted(feed, p), p.biomass_yield)
biomass_produced(feed, p) == RDiv(biomass_mass(feed, p), Int2Rat(25))

ethanol_mass(feed, p) == RMul(glucose_mass_reacted(feed, p), Rat(2, 100))
ethanol_produced(feed, p) == RDiv(ethanol_mass(feed, p), Int2Rat(46))

\* mutant: the ethanol share mistyped as 0.2
la_fraction_typo(p) == RSub(RSub(One, p.biomass_yield), Rat(2, 10))

la_fraction(p) == RSub(RSub(One, p.biomass_yield), Rat(2, 100))
lactic_acid_mass(feed, p) == RMul(glucose_mass_reacted(feed, p), la_fraction(p))
\* mutant: stoichiometric yield (1 glucose -> 2 lactic acid) on top of the
\* biomass and ethanol fractions
lactic_acid_produced_stoich(feed, p) == RMul(glucose_reacted(feed, p), Int2Rat(2))

lactic_acid_produced(feed, p) == RDiv(lactic_acid_mass(feed, p), Int2Rat(90))

\* mutant: the products are added to what the broth already holds
\* (broth.copy_flow(feed) left out)
FermRunBroth_accumulate(feed, broth, p) ==
    LET b1 == [broth EXCEPT
                 !.imol["Glucose"]    = RSub(@, glucose_reacted(feed, p)),
                 !.imol["LacticAcid"] = RAdd(@, lactic_acid_produced(feed, p)),
                 !.imol["WWTsludge"]  = RAdd(@, biomass_produced(feed, p)),
                 !.imol["Ethanol"]    = RAdd(@, ethanol_produced(feed, p))]
    IN  [b1 EXCEPT !.T = RAdd(Int2Rat(37), Rat(27315, 100)), !.P = feed.P]

\* the broth after _run
FermRunBroth(feed, broth, p) ==
    LET b0 == copy_flow(broth, feed)
        b1 == [b0 EXCEPT
                 !.imol["Glucose"]    = RSub(@, glucose_reacted(feed, p)),
                 !.imol["LacticAcid"] = RAdd(@, lactic_acid_produced(feed, p)),
                 !.imol["WWTsludge"]  = RAdd(@, biomass_produced(feed, p)),
                 !.imol["Ethanol"]    = RAdd(@, ethanol_produced(feed, p))]
    IN  [b1 EXCEPT !.T = RAdd(Int2Rat(37), Rat(27315, 100)), !.P = feed.P]

\* mutant: the reacted glucose is taken out of the inbound stream as well
_run_Fermentation_feed(u) ==
    [u EXCEPT !.outs = <<FermRunBroth(u.ins[1], u.outs[1], u.params)>>,
              !.ins  = <<[u.ins[1] EXCEPT !.imol["Glucose"] =
                            RSub(@, glucose_reacted(u.ins[1], u.params))]>>,
              !.err  = "none"]

_run_Fermentation(u) ==
    [u EXCEPT !.outs = <<FermRunBroth(u.ins[1], u.outs[1], u.params)>>,
              !.err  = "none"]

reactor_size == 100

total_volume(broth, p) == RMul(F_vol(broth), p.tau)
\* mutant: the reactor count truncated (int()) instead of rounded up
n_reactors_floor(broth, p) ==
    LET q == RDiv(total_volume(broth, p), Int2Rat(reactor_size))
    IN  Int2Rat(q[1] \div q[2])

n_reactors(broth, p) == Ceil(RDiv(total_volume(broth, p), Int2Rat(reactor_size)))

FermDesignResults(dr, broth, p) ==
    Put(Put(dr, "Reactor volume", total_volume(broth, p)),
        "Number of reactors", n_reactors(broth, p))

_design_Fermentation(u) ==
    [u EXCEPT !.design_results = FermDesignResults(@, u.outs[1], u.params),
              !.err = "none"]

\* mutant: the n > 0 guard left out
V_per_reactor_unguarded(V, n) == PyDiv(V, n)

\* V / n if n > 0 else V
V_per_reactor(V, n) ==
    IF RGt(n, Zero) THEN PyDiv(V, n) ELSE [raised |-> FALSE, val |-> V]

base_cost == 200000

unit_cost(Vpr) == PScale(Pow(RDiv(Vpr, Int2Rat(100)), Rat(65, 100)), Int2Rat(base_cost))
total_purchase(Vpr, n) == PScale(unit_cost(Vpr), n)

\* the exception _cost raises on these design results, or "none"
FermCostErr(dr) ==
    IF ~ {"Reactor volume", "Number of reactors"} \subseteq DOMAIN dr THEN "KeyError"
    ELSE IF V_per_reactor(dr["Reactor volume"], dr["Number of reactors"]).raised
         THEN "ZeroDivisionError"
    ELSE "none"

FermTotalPurchase(dr) ==
    total_purchase(V_per_reactor(dr["Reactor volume"], dr["Number of reactors"]).val,
                   dr["Number of reactors"])

_cost_Fermentation(u) ==
    LET e  == FermCostErr(u.design_results)
        tp == FermTotalPurchase(u.design_results)
    IN  IF e # "none"
        THEN [u EXCEPT !.err = e]
        ELSE [u EXCEPT
                !.baseline_purchase_costs = Put(@, "Fermentation reactors", tp),
                !.purchase_costs  = Put(@, "Fermentation reactors", tp),
                !.installed_costs = Put(@, "Fermentation reactors",
                                        PScale(tp, Rat(28, 10))),
                !.err = "none"]

-----------------------------------------------------------------------------
(* The editor checkpoint of the fermentation block                         *)
(* (src/.ipynb_checkpoints/fermentation-checkpoint.py): same class name,   *)
(* same constructor, its own _run, _design and _cost.                      *)

glucose_reacted_checkpoint(feed, p) == RMul(feed.imol["Glucose"], p.conversion)

\* 1 glucose -> 2 lactic acid
lactic_acid_produced_checkpoint(feed, p) ==
    RMul(glucose_reacted_checkpoint(feed, p), Int2Rat(2))

glucose_mass_reacted_checkpoint(feed, p) ==
    RMul(glucose_reacted_checkpoint(feed, p), Int2Rat(180))
biomass_mass_checkpoint(feed, p) ==
    RMul(glucose_mass_reacted_checkpoint(feed, p), p.biomass_yield)
biomass_produced_checkpoint(feed, p) ==
    RDiv(biomass_mass_checkpoint(feed, p), Int2Rat(25))

ethanol_produced_checkpoint(feed, p) ==
    RMul(glucose_reacted_checkpoint(feed, p), Rat(2, 100))

FermRunBroth_checkpoint(feed, broth, p) ==
    LET b0 == copy_flow(broth, feed)
        b1 == [b0 EXCEPT
                 !.imol["Glucose"]    = RSub(@, glucose_reacted_checkpoint(feed, p)),
                 !.imol["LacticAcid"] = RAdd(@, lactic_acid_produced_checkpoint(feed, p)),
                 !.imol["WWTsludge"]  = RAdd(@, biomass_produced_checkpoint(feed, p)),
                 !.imol["Ethanol"]    = RAdd(@, ethanol_produced_checkpoint(feed, p))]
    IN  [b1 EXCEPT !.T = RAdd(Int2Rat(37), Rat(27315, 100)), !.P = feed.P]

_run_FermentationCheckpoint(u) ==
    [u EXCEPT !.outs = <<FermRunBroth_checkpoint(u.ins[1], u.outs[1], u.params)>>,
              !.err  = "none"]

reactor_size_checkpoint == 100

total_volume_checkpoint(broth, p) == RMul(F_vol(broth), p.tau)
n_reactors_checkpoint(broth, p) ==
    Ceil(RDiv(total_volume_checkpoint(broth, p), Int2Rat(reactor_size_checkpoint)))

_design_FermentationCheckpoint(u) ==
    [u EXCEPT !.design_results =
                  Put(Put(@, "Reactor volume",
                          total_volume_checkpoint(u.outs[1], u.params)),
                      "Number of reactors", n_reactors_checkpoint(u.outs[1], u.params)),
              !.err = "none"]

\* V / n if n > 0 else V
V_per_reactor_checkpoint(V, n) ==
    IF RGt(n, Zero) THEN PyDiv(V, n) ELSE [raised |-> FALSE, val |-> V]

base_cost_checkpoint == 200000

total_purchase_checkpoint(Vpr, n) ==
    PScale(PScale(Pow(RDiv(Vpr, Int2Rat(100)), Rat(65, 100)),
                  Int2Rat(base_cost_checkpoint)), n)

_cost_FermentationCheckpoint(u) ==
    LET dr == u.design_results
    IN  IF ~ {"Reactor volume", "Number of reactors"} \subseteq DOMAIN dr
        THEN [u EXCEPT !.err = "KeyError"]
        ELSE LET V   == dr["Reactor volume"]
                 n   == dr["Number of reactors"]
                 Vpr == V_per_reactor_checkpoint(V, n)
                 tp  == total_purchase_checkpoint(Vpr.val, n)
             IN  IF Vpr.raised
                 THEN [u EXCEPT !.err = "ZeroDivisionError"]
                 ELSE [u EXCEPT
                         !.baseline_purchase_costs = Put(@, "Fermentation reactors", tp),
                         !.purchase_costs  = Put(@, "Fermentation reactors", tp),
                         !.installed_costs = Put(@, "Fermentation reactors",
                                                 PScale(tp, Rat(28, 10))),
                         !.err = "none"]

-----------------------------------------------------------------------------
(* LacticAcidEvaporator                                                    *)

\* mutant: V taken as the fraction of water retained
water_evaporated_retained(feed, p) == RMul(feed.imol["Water"], RSub(One, p.V))

water_evaporated(feed, p) == RMul(feed.imol["Water"], p.V)

EvapT == RAdd(Int2Rat(80), Rat(27315, 100))

\* outs[0] after _run
EvapRunConcentrate(feed, concentrate, p) ==
    LET c0 == copy_flow(concentrate, feed)
        c1 == [c0 EXCEPT !.imol["Water"] = RSub(@, water_evaporated(feed, p))]
    IN  [c1 EXCEPT !.T = EvapT, !.P = p.P, !.phase = "l"]

\* mutant: the vapor starts from a copy of the feed instead of an empty stream
EvapRunVapor_copy(feed, vapor, p) ==
    LET v0 == copy_flow(vapor, feed)
        v1 == [v0 EXCEPT !.imol["Water"] = water_evaporated(feed, p)]
    IN  [v1 EXCEPT !.T = EvapT, !.P = p.P, !.phase = "g"]

\* outs[1] after _run
EvapRunVapor(feed, vapor, p) ==
    LET v0 == empty(vapor)
        v1 == [v0 EXCEPT !.imol["Water"] = water_evaporated(feed, p)]
    IN  [v1 EXCEPT !.T = EvapT, !.P = p.P, !.phase = "g"]

_run_Evaporation(u) ==
    [u EXCEPT !.outs = <<EvapRunConcentrate(u.ins[1], u.outs[1], u.params),
                         EvapRunVapor(u.ins[1], u.outs[2], u.params)>>,
              !.err  = "none"]

Hvap == Rat(4066, 100)   \* kJ/mol
U    == Rat(1, 2)        \* kW/m2/K
LMTD == 30               \* K

\* mutant: the kJ/mol -> kJ/kmol factor left out
Q_nokilo(vapor) == RDiv(RMul(vapor.imol["Water"], Hvap), Int2Rat(3600))

\* Q = water_evap * Hvap * 1000 / 3600  [kW]
Q(vapor) ==
    RDiv(RMul(RMul(vapor.imol["Water"], Hvap), Int2Rat(1000)), Int2Rat(3600))

\* A = Q / (U * LMTD) if LMTD > 0 else 0
A(vapor) ==
    IF LMTD > 0 THEN RDiv(Q(vapor), RMul(U, Int2Rat(LMTD))) ELSE Zero

EvapDesignResults(dr, feed, vapor) ==
    Put(Put(dr, "Evaporator volume", RMul(F_vol(feed), Int2Rat(2))),
        "Heat transfer area", A(vapor))

\* mutant: the duty stored by the first sizing step only
_design_Evaporation_keepfirst(u) ==
    [u EXCEPT !.design_results = EvapDesignResults(@, u.ins[1], u.outs[2]),
              !.evaporation_duty = IF @.set THEN @
                                   ELSE [set |-> TRUE, val |-> Q(u.outs[2])],
              !.err = "none"]

_design_Evaporation(u) ==
    [u EXCEPT !.design_results = EvapDesignResults(@, u.ins[1], u.outs[2]),
              !.evaporation_duty = [set |-> TRUE, val |-> Q(u.outs[2])],
              !.err = "none"]

vessel_cost(V) ==
    IF RGt(V, Zero)
    THEN PScale(Pow(RDiv(V, Int2Rat(50)), Rat(6, 10)), Int2Rat(80000))
    ELSE PZero

hx_cost(a) ==
    IF RGt(a, Zero)
    THEN PScale(Pow(RDiv(a, Int2Rat(100)), Rat(65, 100)), Int2Rat(15000))
    ELSE PZero

EvapTotalPurchase(dr) ==
    PAdd(vessel_cost(dr["Evaporator volume"]), hx_cost(dr["Heat transfer area"]))

\* hu = HeatUtility(); hu.load_agent(low_pressure_steam); hu(duty, 150 + 273.15)
HeatUtility(duty) ==
    [agent |-> "low_pressure_steam", duty |-> duty,
     T_in |-> RAdd(Int2Rat(150), Rat(27315, 100))]

\* the exception _cost raises, or "none": the design results are read first,
\* self._evaporation_duty after the costs are stored
EvapCostErr(dr, duty) ==
    IF ~ {"Evaporator volume", "Heat transfer area"} \subseteq DOMAIN dr THEN "KeyError"
    ELSE IF ~ duty.set THEN "AttributeError"
    ELSE "none"

\* mutant: the record appended to the list instead of replacing it
EvapHeatUtilities_append(hus, duty) == Append(hus, HeatUtility(duty.val))

EvapHeatUtilities(hus, duty) == <<HeatUtility(duty.val)>>

_cost_Evaporation(u) ==
    LET e  == EvapCostErr(u.design_results, u.evaporation_duty)
        tp == EvapTotalPurchase(u.design_results)
        stored == [u EXCEPT
                     !.baseline_purchase_costs = Put(@, "Evaporator", tp),
                     !.purchase_costs  = Put(@, "Evaporator", tp),
                     !.installed_costs = Put(@, "Evaporator",
                                             PScale(tp, Rat(32, 10)))]
    IN  IF e = "KeyError" THEN [u EXCEPT !.err = e]
        ELSE IF e # "none" THEN [stored EXCEPT !.err = e]
        ELSE [stored EXCEPT
                !.heat_utilities = EvapHeatUtilities(@, u.evaporation_duty),
                !.err = "none"]

-----------------------------------------------------------------------------
(* The driver's report (src/.ipynb_checkpoints/run_simulation-checkpoint.py *)
(* from "Display Results" on).  It reads the product and broth streams and  *)
(* the TEA object after the simulation and prints quotients of them.  The   *)
(* net present value and the lines that divide by literals are left out.    *)

OPERATING_DAYS    == 330
OPERATING_HOURS   == OPERATING_DAYS * 24
LACTIC_ACID_PRICE == Rat(150, 100)
IRR_TARGET        == Rat(10, 100)

\* no report is running: the unit is being simulated
NoReport == [pc |-> "off"]

Finite(v)  == [finite |-> TRUE, val |-> v]
NotFinite  == [finite |-> FALSE, val |-> Zero]

\* name = value
Stored(r, name, v) ==
    IF r.err # "none" THEN r ELSE [r EXCEPT !.printed = Put(@, name, Finite(v))]

\* name = num / den.  A zero den raises ZeroDivisionError when the stream
\* accessor returned a Python float and leaves inf or nan (its warning is
\* filtered, line 24) when it returned a numpy.float64; which of the two
\* depends on the installed thermosteam.  divided_by_zero records the
\* division and the quantity the denominator was.
Quotient(r, name, denominator, num, den) ==
    IF r.err # "none" THEN r
    ELSE IF den # Zero THEN [r EXCEPT !.printed = Put(@, name, Finite(RDiv(num, den)))]
    ELSE IF r.number = "float"
    THEN [r EXCEPT !.err = "ZeroDivisionError",
                   !.divided_by_zero = @ \cup {<<name, denominator>>}]
    ELSE [r EXCEPT !.printed = Put(@, name, NotFinite),
                   !.divided_by_zero = @ \cup {<<name, denominator>>}]

\* lines 242-264
production_metrics(r) ==
    LET r1 == [r EXCEPT !.annual_production =
                   RDiv(RMul(r.la_production, Int2Rat(OPERATING_HOURS)), Int2Rat(1000))]
        r2 == IF RGt(r1.glucose_consumed, Zero)
              THEN Quotient(r1, "overall_yield", "glucose_consumed",
                            r1.la_production, r1.glucose_consumed)
              ELSE Stored(r1, "overall_yield", Zero)
        r3 == Quotient(r2, "product_concentration", "product.F_mass",
                       RMul(r2.la_production, Int2Rat(100)), r2.product_F_mass)
    IN  Quotient(r3, "broth_concentration", "broth.F_mass",
                 RMul(r3.broth_LacticAcid, Int2Rat(100)), r3.broth_F_mass)

\* lines 274-281
energy_requirements(r) ==
    IF RGt(r.la_production, Zero)
    THEN Quotient(r, "specific_energy", "la_production",
                  RMul(r.total_power, Int2Rat(1000)), r.la_production)
    ELSE r

\* lines 284-291
capital_investment(r) ==
    IF RGt(r.annual_production, Zero)
    THEN Quotient(r, "specific_investment", "annual_production",
                  r.TCI, RMul(r.annual_production, Int2Rat(1000)))
    ELSE r

\* line 312
operating_costs(r) ==
    IF RGt(r.annual_production, Zero)
    THEN Quotient(r, "unit_cost", "annual_production",
                  r.total_operating_cost, RMul(r.annual_production, Int2Rat(1000)))
    ELSE Stored(r, "unit_cost", Zero)

\* lines 327-329, 340-341 and 353-355
project_economics(r) ==
    LET annual_revenue ==
            RMul(RMul(r.annual_production, Int2Rat(1000)), LACTIC_ACID_PRICE)
        annual_profit == RSub(annual_revenue, r.total_operating_cost)
        r1 == [r EXCEPT !.annual_revenue = annual_revenue]
        r2 == IF RGt(annual_revenue, Zero)
              THEN Quotient(r1, "gross_margin", "annual_revenue",
                            RMul(annual_profit, Int2Rat(100)), annual_revenue)
              ELSE Stored(r1, "gross_margin", Zero)
        required_annual_return == RMul(r.TCI, IRR_TARGET)
        r3 == Quotient(r2, "min_selling_price", "annual_production",
                       RAdd(r.total_operating_cost, required_annual_return),
                       RMul(r.annual_production, Int2Rat(1000)))
    IN  IF RGt(annual_profit, Zero)
        THEN Quotient(r3, "simple_payback", "annual_profit", r.TCI, annual_profit)
        ELSE r3

\* lines 357-372
key_performance_indicators(r) ==
    LET r1 == Quotient(r, "product_concentration", "product.F_mass",
                       RMul(r.la_production, Int2Rat(100)), r.product_F_mass)
        r2 == IF RGt(r1.la_production, Zero)
              THEN Quotient(r1, "energy_intensity", "la_production",
                            RMul(r1.total_power, Int2Rat(1000)),
                            RDiv(r1.la_production, Int2Rat(1000)))
              ELSE r1
    IN  IF RGt(r2.annual_production, Zero)
        THEN Quotient(r2, "capex_per_annual_ton", "annual_production",
                      r2.TCI, r2.annual_production)
        ELSE r2

\* the script goes on to the next section, or ends with the exception
Section(r, next) ==
    IF r.err # "none" THEN [r EXCEPT !.pc = "failed"] ELSE [r EXCEPT !.pc = next]

-----------------------------------------------------------------------------
(* The flowsheet engine and the specification                              *)

\* the unit as one record
Self ==
    [cls |-> cls, params |-> params, ins |-> ins, outs |-> outs,
     design_results |-> design_results,
     baseline_purchase_costs |-> baseline_purchase_costs,
     purchase_costs |-> purchase_costs, installed_costs |-> installed_costs,
     heat_utilities |-> heat_utilities, evaporation_duty |-> evaporation_duty,
     err |-> err]

Becomes(u) ==
    /\ cls' = u.cls
    /\ params' = u.params
    /\ ins' = u.ins
    /\ outs' = u.outs
    /\ design_results' = u.design_results
    /\ baseline_purchase_costs' = u.baseline_purchase_costs
    /\ purchase_costs' = u.purchase_costs
    /\ installed_costs' = u.installed_costs
    /\ heat_utilities' = u.heat_utilities
    /\ evaporation_duty' = u.evaporation_duty
    /\ err' = u.err
    /\ report' = report

\* the method of the unit's class
_run(u) ==
    IF u.cls = "Fermentation" THEN _run_Fermentation(u)
    ELSE IF u.cls = "FermentationCheckpoint" THEN _run_FermentationCheckpoint(u)
    ELSE _run_Evaporation(u)
_design(u) ==
    IF u.cls = "Fermentation" THEN _design_Fermentation(u)
    ELSE IF u.cls = "FermentationCheckpoint" THEN _design_FermentationCheckpoint(u)
    ELSE _design_Evaporation(u)
_cost(u) ==
    IF u.cls = "Fermentation" THEN _cost_Fermentation(u)
    ELSE IF u.cls = "FermentationCheckpoint" THEN _cost_FermentationCheckpoint(u)
    ELSE _cost_Evaporation(u)

\* one simulation pass over the unit: balance, sizing, costing
Round(u) == _cost(_design(_run(u)))

FermRun    == cls = "Fermentation" /\ Becomes(_run(Self)) /\ last' = "_run"
FermDesign == cls = "Fermentation" /\ Becomes(_design(Self)) /\ last' = "_design"
FermCost   == cls = "Fermentation" /\ Becomes(_cost(Self)) /\ last' = "_cost"
EvapRun    == cls = "Evaporation" /\ Becomes(_run(Self)) /\ last' = "_run"
EvapDesign == cls = "Evaporation" /\ Becomes(_design(Self)) /\ last' = "_design"
EvapCost   == cls = "Evaporation" /\ Becomes(_cost(Self)) /\ last' = "_cost"

\* an upstream unit (or the driver) puts new contents into the inbound stream
SetFeed ==
    /\ \E f \in Feeds : f # ins[1] /\ ins' = <<f>>
    /\ last' = "feed"
    /\ UNCHANGED <<cls, params, outs, design_results, baseline_purchase_costs,
                   purchase_costs, installed_costs, heat_utilities, evaporation_duty,
                   err, report>>

\* bst.Unit.__init__: empty result dicts, no heat utilities, empty outbound streams
Init ==
    /\ cls \in {"Fermentation", "Evaporation"}
    /\ params \in (IF cls = "Fermentation" THEN FermParams ELSE EvapParams)
    /\ ins \in {<<f>> : f \in Feeds}
    /\ outs = IF cls = "Fermentation" THEN <<EmptyStream>>
              ELSE <<EmptyStream, EmptyStream>>
    /\ design_results = EmptyDict
    /\ baseline_purchase_costs = EmptyDict
    /\ purchase_costs = EmptyDict
    /\ installed_costs = EmptyDict
    /\ heat_utilities = <<>>
    /\ evaporation_duty = [set |-> FALSE, val |-> Zero]
    /\ err = "none"
    /\ last = "__init__"
    /\ report = NoReport

Next ==
    \/ FermRun
    \/ FermDesign
    \/ FermCost
    \/ EvapRun
    \/ EvapDesign
    \/ EvapCost
    \/ SetFeed

Spec == Init /\ [][Next]_vars

\* a unit built from the checkpoint file's class, driven the same way
CheckpointRun ==
    cls = "FermentationCheckpoint" /\ Becomes(_run(Self)) /\ last' = "_run"
CheckpointDesign ==
    cls = "FermentationCheckpoint" /\ Becomes(_design(Self)) /\ last' = "_design"
CheckpointCost ==
    cls = "FermentationCheckpoint" /\ Becomes(_cost(Self)) /\ last' = "_cost"

InitCheckpoint ==
    /\ cls = "FermentationCheckpoint"
    /\ params \in FermParams
    /\ ins \in {<<f>> : f \in Feeds}
    /\ outs = <<EmptyStream>>
    /\ design_results = EmptyDict
    /\ baseline_purchase_costs = EmptyDict
    /\ purchase_costs = EmptyDict
    /\ installed_costs = EmptyDict
    /\ heat_utilities = <<>>
    /\ evaporation_duty = [set |-> FALSE, val |-> Zero]
    /\ err = "none"
    /\ last = "__init__"
    /\ report = NoReport

NextCheckpoint ==
    \/ CheckpointRun
    \/ CheckpointDesign
    \/ CheckpointCost
    \/ SetFeed

SpecCheckpoint == InitCheckpoint /\ [][NextCheckpoint]_vars

\* what the report reads: mass flows [kg/hr] of the product and broth
\* streams after lactic_acid_sys.simulate(), figures of the TEA object, and
\* the number type the stream accessors return
ProductStreams ==
    {[F_mass |-> Zero, LacticAcid |-> Zero],
     [F_mass |-> Int2Rat(1250), LacticAcid |-> Zero]}
    \cup {[F_mass |-> Int2Rat(1250 * k), LacticAcid |-> Int2Rat(1000 * k)] :
             k \in 1..MaxProductSteps}
BrothStreams ==
    {[F_mass |-> Zero, LacticAcid |-> Zero],
     [F_mass |-> Int2Rat(9000), LacticAcid |-> Zero]}
    \cup {[F_mass |-> Int2Rat(9000 * k), LacticAcid |-> Int2Rat(1010 * k)] :
             k \in 1..MaxProductSteps}

\* the streams of one simulated flowsheet: the product is part of the broth
Simulated ==
    {x \in ProductStreams \X BrothStreams \X {Zero, Int2Rat(1200)} :
        /\ RLe(x[1].F_mass, x[2].F_mass)
        /\ RLe(x[1].LacticAcid, x[2].LacticAcid)
        /\ RLe(x[3], x[2].F_mass)}

ReportInputs ==
    {[pc |-> "production_metrics", number |-> t,
      la_production |-> x[1].LacticAcid, product_F_mass |-> x[1].F_mass,
      broth_LacticAcid |-> x[2].LacticAcid, broth_F_mass |-> x[2].F_mass,
      glucose_consumed |-> x[3], total_power |-> w,
      TCI |-> Int2Rat(20000000), total_operating_cost |-> c,
      annual_production |-> Zero, annual_revenue |-> Zero,
      printed |-> EmptyDict, divided_by_zero |-> {}, err |-> "none"] :
        t \in {"float", "numpy.float64"},
        x \in Simulated,
        w \in {Zero, Rat(1, 2)},
        c \in {Int2Rat(4000000), Int2Rat(12000000)}}

unit_vars == <<cls, params, ins, outs, design_results, baseline_purchase_costs,
               purchase_costs, installed_costs, heat_utilities, evaporation_duty,
               err, last>>

ProductionMetrics ==
    /\ report.pc = "production_metrics"
    /\ report' = Section(production_metrics(report), "energy_requirements")
    /\ UNCHANGED unit_vars
EnergyRequirements ==
    /\ report.pc = "energy_requirements"
    /\ report' = Section(energy_requirements(report), "capital_investment")
    /\ UNCHANGED unit_vars
CapitalInvestment ==
    /\ report.pc = "capital_investment"
    /\ report' = Section(capital_investment(report), "operating_costs")
    /\ UNCHANGED unit_vars
OperatingCosts ==
    /\ report.pc = "operating_costs"
    /\ report' = Section(operating_costs(report), "project_economics")
    /\ UNCHANGED unit_vars
ProjectEconomics ==
    /\ report.pc = "project_economics"
    /\ report' = Section(project_economics(report), "key_performance_indicators")
    /\ UNCHANGED unit_vars
KeyPerformanceIndicators ==
    /\ report.pc = "key_performance_indicators"
    /\ report' = Section(key_performance_indicators(report), "complete")
    /\ UNCHANGED unit_vars

\* the fermentation unit R201 as configured, simulated; the report follows
InitReport ==
    /\ cls = "Fermentation"
    /\ params = [tau |-> Int2Rat(48), conversion |-> Rat(9, 10),
                 biomass_yield |-> Rat(2, 25)]
    /\ ins = <<FeedStream(NoFlow, Rat(29815, 100))>>
    /\ outs = <<EmptyStream>>
    /\ design_results = EmptyDict
    /\ baseline_purchase_costs = EmptyDict
    /\ purchase_costs = EmptyDict
    /\ installed_costs = EmptyDict
    /\ heat_utilities = <<>>
    /\ evaporation_duty = [set |-> FALSE, val |-> Zero]
    /\ err = "none"
    /\ last = "__init__"
    /\ report \in ReportInputs

NextReport ==
    \/ ProductionMetrics
    \/ EnergyRequirements
    \/ CapitalInvestment
    \/ OperatingCosts
    \/ ProjectEconomics
    \/ KeyPerformanceIndicators

SpecReport == InitReport /\ [][NextReport]_vars

-----------------------------------------------------------------------------
(* Properties                                                              *)

IsFerm == cls = "Fermentation"
IsEvap == cls = "Evaporation"

InUnit(r) == RLe(Zero, r) /\ RLe(r, One)

\* conversion in [0, 1] and biomass_yield in [0, 0.98]
ValidFerm ==
    /\ IsFerm
    /\ InUnit(params.conversion)
    /\ RLe(Zero, params.biomass_yield) /\ RLe(params.biomass_yield, Rat(98, 100))

\* molar masses the fermentation block assumes (water is not converted)
AssumedMW ==
    [s \in Species |->
        CASE s = "Water"      -> 18
          [] s = "Glucose"    -> 180
          [] s = "LacticAcid" -> 90
          [] s = "Ethanol"    -> 46
          [] s = "WWTsludge"  -> 25]

AssumedMass(stream) ==
    RAdd(RMul(stream.imol["Water"], Int2Rat(AssumedMW["Water"])),
    RAdd(RMul(stream.imol["Glucose"], Int2Rat(AssumedMW["Glucose"])),
    RAdd(RMul(stream.imol["LacticAcid"], Int2Rat(AssumedMW["LacticAcid"])),
    RAdd(RMul(stream.imol["Ethanol"], Int2Rat(AssumedMW["Ethanol"])),
         RMul(stream.imol["WWTsludge"], Int2Rat(AssumedMW["WWTsludge"]))))))

\* mass of species s gained by the broth over the feed [kg/hr]
GainedMass(s) ==
    RMul(RSub(outs[1].imol[s], ins[1].imol[s]), Int2Rat(AssumedMW[s]))

\* mass of glucose lost by the broth over the feed [kg/hr]
ReactedMass == RNeg(GainedMass("Glucose"))

\* C1: after the fermentation balance step with conversion in [0,1] and
\* biomass_yield in [0,0.98], the glucose that left the stream is
\* feed glucose x conversion, its mass (x 180) equals the mass of biomass,
\* ethanol and lactic acid that entered the stream, these being the
\* biomass_yield, 0.02 and 1 - biomass_yield - 0.02 fractions of it, and the
\* broth's total mass (molar masses 180, 25, 46, 90) equals the feed's.
C1_MassConservation ==
    (ValidFerm /\ last = "_run") =>
        /\ RSub(ins[1].imol["Glucose"], outs[1].imol["Glucose"])
             = RMul(ins[1].imol["Glucose"], params.conversion)
        /\ ReactedMass = RAdd(RAdd(GainedMass("WWTsludge"), GainedMass("Ethanol")),
                              GainedMass("LacticAcid"))
        /\ GainedMass("WWTsludge") = RMul(ReactedMass, params.biomass_yield)
        /\ GainedMass("Ethanol") = RMul(ReactedMass, Rat(2, 100))
        /\ GainedMass("LacticAcid")
             = RMul(ReactedMass, RSub(RSub(One, params.biomass_yield), Rat(2, 100)))
        /\ AssumedMass(outs[1]) = AssumedMass(ins[1])

C1_Witness ==
    /\ ValidFerm /\ last = "_run"
    /\ RGt(ReactedMass, Zero)
    /\ RGt(GainedMass("WWTsludge"), Zero)
    /\ RGt(GainedMass("LacticAcid"), Zero)

\* C2: after the evaporation balance step, for every V, concentrate water
\* plus vapor water equals inbound water, every other species has its
\* inbound flow in the concentrate, and the vapor holds nothing but water.
C2_EvapWaterBalance ==
    (IsEvap /\ last = "_run") =>
        /\ RAdd(outs[1].imol["Water"], outs[2].imol["Water"]) = ins[1].imol["Water"]
        /\ \A s \in Species \ {"Water"} :
              /\ outs[1].imol[s] = ins[1].imol[s]
              /\ outs[2].imol[s] = Zero

C2_Witness ==
    /\ IsEvap /\ last = "_run"
    /\ RGt(outs[2].imol["Water"], Zero)
    /\ RGt(outs[1].imol["Water"], Zero)
    /\ RGt(ins[1].imol["LacticAcid"], Zero)

Steps == {"_run", "_design", "_cost"}

\* C3: for either block, a second balance-sizing-costing pass over the same
\* inbound stream and parameters leaves the unit (streams, design results,
\* cost mappings, heat utilities) exactly as the first pass left it, the
\* evaporator then holding exactly one heat-utility record; and a step
\* invoked again right after itself changes nothing.
C3_RoundIdempotent ==
    LET once  == Round(Self)
        twice == Round(once)
    IN  /\ twice = once
        /\ IsEvap => Len(once.heat_utilities) = 1
        /\ IsEvap => Len(twice.heat_utilities) = 1

\* C3 (whole claim): the above in every reachable state, and on every
\* transition a step repeated right after itself leaves the unit unchanged.
C3_Idempotence ==
    /\ []C3_RoundIdempotent
    /\ [][(last \in Steps /\ last' = last) => Self' = Self]_vars

\* a pass has been completed on a non-empty feed and its results are in place
C3_Witness ==
    /\ last = "_cost" /\ err = "none"
    /\ Round(Self) = Self
    /\ RGt(F_vol(outs[1]), Zero)
    /\ "Number of reactors" \in DOMAIN design_results
    /\ RGt(design_results["Number of reactors"], One)
    /\ purchase_costs["Fermentation reactors"] # PZero

\* the evaporator case of C3 is reached as well: one record after two passes
C3_WitnessEvaporation ==
    /\ IsEvap /\ last = "_cost" /\ err = "none"
    /\ Round(Self) = Self
    /\ RGt(outs[2].imol["Water"], Zero)
    /\ Len(heat_utilities) = 1
    /\ RGt(heat_utilities[1].duty, Zero)

\* the broth the balance step would give with conversion c in place of the
\* configured one, everything else equal
BrothWith(c) == FermRunBroth(ins[1], outs[1], [params EXCEPT !.conversion = c])

\* lactic acid the broth b holds over the feed
LacticAcidGain(b) == RSub(b.imol["LacticAcid"], ins[1].imol["LacticAcid"])

HigherConversions ==
    {c \in Conversions : InUnit(c) /\ RLt(params.conversion, c)}

\* C4 as stated: for inbound glucose > 0 and biomass_yield in [0, 0.98], a
\* higher conversion in [0,1] gives strictly more lactic acid and strictly
\* less residual glucose.
C4_Original ==
    (ValidFerm /\ last = "_run" /\ RGt(ins[1].imol["Glucose"], Zero)) =>
        \A c \in HigherConversions :
            /\ RGt(LacticAcidGain(BrothWith(c)), LacticAcidGain(outs[1]))
            /\ RLt(BrothWith(c).imol["Glucose"], outs[1].imol["Glucose"])

\* C4 amended: for inbound glucose > 0, a higher conversion in [0,1] gives
\* strictly less residual glucose for every biomass_yield in [0, 0.98], and
\* strictly more lactic acid for biomass_yield in [0, 0.98); at
\* biomass_yield = 0.98 the lactic-acid fraction is zero and the lactic acid
\* produced is the same (none) at every conversion.
C4_Monotone ==
    (ValidFerm /\ last = "_run" /\ RGt(ins[1].imol["Glucose"], Zero)) =>
        \A c \in HigherConversions :
            /\ RLt(BrothWith(c).imol["Glucose"], outs[1].imol["Glucose"])
            /\ RLt(params.biomass_yield, Rat(98, 100)) =>
                  RGt(LacticAcidGain(BrothWith(c)), LacticAcidGain(outs[1]))
            /\ params.biomass_yield = Rat(98, 100) =>
                  /\ LacticAcidGain(BrothWith(c)) = Zero
                  /\ LacticAcidGain(outs[1]) = Zero

C4_Witness ==
    /\ ValidFerm /\ last = "_run" /\ RGt(ins[1].imol["Glucose"], Zero)
    /\ RGt(params.conversion, Zero)
    /\ RLt(params.biomass_yield, Rat(98, 100))
    /\ \E c \in HigherConversions :
          RGt(LacticAcidGain(BrothWith(c)), LacticAcidGain(outs[1]))

\* C5: with conversion = 0 the fermentation balance step leaves the broth
\* with the inbound composition (nothing reacted, nothing produced); with
\* V = 0 the evaporation balance step gives a vapor with no flow and a
\* concentrate with the inbound composition, at 353.15 K, pressure P, liquid.
C5_Boundary ==
    /\ (IsFerm /\ last = "_run" /\ params.conversion = Zero) =>
          /\ outs[1].imol = ins[1].imol
          /\ ReactedMass = Zero
    /\ (IsEvap /\ last = "_run" /\ params.V = Zero) =>
          /\ outs[2].imol = NoFlow
          /\ outs[1].imol = ins[1].imol
          /\ outs[1].T = Rat(35315, 100) /\ outs[1].P = params.P
          /\ outs[1].phase = "l"

C5_Witness ==
    /\ IsEvap /\ last = "_run" /\ params.V = Zero
    /\ RGt(ins[1].imol["Water"], Zero)
    /\ outs[1].imol = ins[1].imol

\* the conversion = 0 case of C5 is reached as well
C5_WitnessFermentation ==
    /\ IsFerm /\ last = "_run" /\ params.conversion = Zero
    /\ RGt(ins[1].imol["Glucose"], Zero)
    /\ outs[1].imol = ins[1].imol

HasKeys(d, ks) == ks \subseteq DOMAIN d

\* C6: with an all-zero inbound stream a balance-sizing-costing pass raises
\* nothing and gives, for the fermentation block, reactor volume 0, number
\* of reactors 0 and purchase and installed cost 0 (the per-reactor volume
\* is the zero total volume, no division by the zero count), and for the
\* evaporation block volume 0, heat-transfer area 0, vessel and
\* heat-exchanger cost 0 and purchase and installed cost 0.  The same holds
\* step by step of the results the unit actually stores.
C6_ZeroFlow ==
    /\ ins[1].imol = NoFlow =>
          LET ran      == _run(Self)
              designed == _design(ran)
              costed   == _cost(designed)
          IN  /\ ran.err = "none"
              /\ designed.err = "none"
              /\ costed.err = "none"
              /\ \A i \in DOMAIN outs : ran.outs[i].imol = NoFlow
              /\ \A k \in DOMAIN costed.design_results :
                    costed.design_results[k] = Zero
              /\ IsFerm =>
                    /\ HasKeys(costed.design_results,
                               {"Reactor volume", "Number of reactors"})
                    /\ V_per_reactor(Zero, Zero) = [raised |-> FALSE, val |-> Zero]
                    /\ costed.purchase_costs["Fermentation reactors"] = PZero
                    /\ costed.installed_costs["Fermentation reactors"] = PZero
              /\ IsEvap =>
                    /\ HasKeys(costed.design_results,
                               {"Evaporator volume", "Heat transfer area"})
                    /\ vessel_cost(Zero) = PZero /\ hx_cost(Zero) = PZero
                    /\ costed.purchase_costs["Evaporator"] = PZero
                    /\ costed.installed_costs["Evaporator"] = PZero
    /\ (last = "_design" /\ F_vol(outs[1]) = Zero /\ IsFerm) =>
          /\ design_results["Reactor volume"] = Zero
          /\ design_results["Number of reactors"] = Zero
    /\ (last = "_cost" /\ IsFerm /\ HasKeys(design_results, {"Reactor volume"})
          /\ design_results["Reactor volume"] = Zero) =>
          /\ err = "none"
          /\ purchase_costs["Fermentation reactors"] = PZero
          /\ installed_costs["Fermentation reactors"] = PZero

\* a pass over an all-zero feed has been made and stored its zeros
C6_Witness ==
    /\ IsFerm /\ ins[1].imol = NoFlow
    /\ last = "_cost" /\ err = "none"
    /\ outs[1].imol = NoFlow
    /\ RGt(params.tau, Zero)
    /\ design_results["Number of reactors"] = Zero
    /\ purchase_costs["Fermentation reactors"] = PZero
    /\ installed_costs["Fermentation reactors"] = PZero

\* q is x to within tol
Approx(q, x, tol) == RLe(RSub(x, tol), q) /\ RLe(q, RAdd(x, tol))

EvapScenario ==
    /\ IsEvap
    /\ ins[1].imol["Water"] = Int2Rat(1000)
    /\ params.V = Rat(70, 100)

\* the balance part of C7: inbound water 1000 and V = 0.70 give vapor water
\* 700 and concentrate water 300
C7_Balance ==
    (EvapScenario /\ last = "_run") =>
        /\ outs[2].imol["Water"] = Int2Rat(700)
        /\ outs[1].imol["Water"] = Int2Rat(300)

\* the duty the sizing step stores for 700 kmol/hr of vapor is
\* 700 x 40.66 x 1000 / 3600
C7_Duty ==
    (IsEvap /\ last = "_design" /\ outs[2].imol["Water"] = Int2Rat(700)) =>
        /\ evaporation_duty.set
        /\ evaporation_duty.val =
             RDiv(RMul(RMul(Int2Rat(700), Rat(4066, 100)), Int2Rat(1000)),
                  Int2Rat(3600))

\* C7 as stated: ... and the heat duty is 7907.8 kW to the digit given
C7_Original ==
    /\ C7_Balance
    /\ C7_Duty
    /\ (IsEvap /\ last = "_design" /\ outs[2].imol["Water"] = Int2Rat(700)) =>
          Approx(evaporation_duty.val, Rat(79078, 10), Rat(5, 100))

\* C7 amended: for inbound water 1000 kmol/hr and V = 0.70 the balance step
\* gives vapor water 700 and concentrate water 300, and the sizing step
\* stores Q = 700 x 40.66 x 1000 / 3600 = 71155/9, which is 7906.1 kW to the
\* digit given (not 7907.8).
C7_Scenario ==
    /\ C7_Balance
    /\ C7_Duty
    /\ (IsEvap /\ last = "_design" /\ outs[2].imol["Water"] = Int2Rat(700)) =>
          Approx(evaporation_duty.val, Rat(79061, 10), Rat(5, 100))

C7_Witness ==
    /\ EvapScenario /\ last = "_design"
    /\ outs[2].imol["Water"] = Int2Rat(700)
    /\ outs[1].imol["Water"] = Int2Rat(300)
    /\ evaporation_duty.set

FermScenario ==
    /\ IsFerm
    /\ ins[1].imol = Flow(Int2Rat(400), Int2Rat(100), Zero, Zero, Zero)
    /\ params.conversion = Rat(90, 100)
    /\ params.biomass_yield = Rat(8, 100)

\* C8: inbound glucose 100 and water 400 kmol/hr, conversion 0.90 and
\* biomass_yield 0.08: the balance step reacts 90 kmol/hr (16200 kg/hr) of
\* glucose, adds 1296 kg/hr biomass (51.84 kmol/hr), 324 kg/hr ethanol
\* (7.043 kmol/hr to the digit given) and 14580 kg/hr lactic acid
\* (162 kmol/hr), and leaves glucose 10 and water 400 kmol/hr.
C8_Scenario ==
    (FermScenario /\ last = "_run") =>
        /\ RSub(ins[1].imol["Glucose"], outs[1].imol["Glucose"]) = Int2Rat(90)
        /\ ReactedMass = Int2Rat(16200)
        /\ GainedMass("WWTsludge") = Int2Rat(1296)
        /\ outs[1].imol["WWTsludge"] = Rat(5184, 100)
        /\ GainedMass("Ethanol") = Int2Rat(324)
        /\ outs[1].imol["Ethanol"] = Rat(324, 46)
        /\ Approx(outs[1].imol["Ethanol"], Rat(7043, 1000), Rat(5, 10000))
        /\ GainedMass("LacticAcid") = Int2Rat(14580)
        /\ outs[1].imol["LacticAcid"] = Int2Rat(162)
        /\ outs[1].imol["Glucose"] = Int2Rat(10)
        /\ outs[1].imol["Water"] = Int2Rat(400)

C8_Witness ==
    /\ FermScenario /\ last = "_run"
    /\ outs[1].imol["LacticAcid"] = Int2Rat(162)

OutOfRange ==
    \/ ~ InUnit(params.conversion)
    \/ ~ InUnit(params.biomass_yield)
    \/ RGt(params.biomass_yield, Rat(98, 100))
    \/ RLe(params.tau, Zero)

\* C9: whatever conversion, biomass_yield and tau the fermentation block
\* was given, a balance-sizing-costing pass raises nothing and stores the
\* broth, both design results and the purchase and installed cost; the
\* balance and sizing steps never raise, and the costing step does not
\* raise once a sizing step has stored its results.
C9_NoError ==
    IsFerm =>
        /\ LET ran      == _run(Self)
               designed == _design(ran)
               costed   == _cost(designed)
           IN  /\ ran.err = "none"
               /\ designed.err = "none"
               /\ costed.err = "none"
               /\ HasKeys(costed.design_results,
                          {"Reactor volume", "Number of reactors"})
               /\ HasKeys(costed.purchase_costs, {"Fermentation reactors"})
               /\ HasKeys(costed.installed_costs, {"Fermentation reactors"})
        /\ last \in {"_run", "_design"} => err = "none"
        /\ last = "_design" =>
              HasKeys(design_results, {"Reactor volume", "Number of reactors"})
        /\ (last = "_cost" /\ design_results # EmptyDict) =>
              /\ err = "none"
              /\ HasKeys(purchase_costs, {"Fermentation reactors"})
              /\ HasKeys(installed_costs, {"Fermentation reactors"})

\* out-of-range parameters, a full pass made, degenerate results stored
C9_Witness ==
    /\ IsFerm /\ last = "_cost" /\ err = "none"
    /\ RGt(params.conversion, One)
    /\ RGt(params.biomass_yield, One)
    /\ RLt(params.tau, Zero)
    /\ Round(Self) = Self
    /\ RLt(outs[1].imol["Glucose"], Zero)
    /\ RLt(outs[1].imol["LacticAcid"], Zero)
    /\ RLt(design_results["Reactor volume"], Zero)
    /\ HasKeys(installed_costs, {"Fermentation reactors"})

\* C10: a balance step changes nothing but the unit's outbound streams; a
\* sizing step changes nothing but the design results (and, for the
\* evaporator, the stored duty); a costing step changes nothing but the
\* cost mappings and the heat-utility list; no step changes the inbound
\* stream, the class or the parameters.
C10_Frame ==
    [][/\ last' \in Steps =>
             /\ ins' = ins /\ params' = params /\ cls' = cls
       /\ last' = "_run" =>
             /\ design_results' = design_results
             /\ baseline_purchase_costs' = baseline_purchase_costs
             /\ purchase_costs' = purchase_costs
             /\ installed_costs' = installed_costs
             /\ heat_utilities' = heat_utilities
             /\ evaporation_duty' = evaporation_duty
       /\ last' = "_design" =>
             /\ outs' = outs
             /\ baseline_purchase_costs' = baseline_purchase_costs
             /\ purchase_costs' = purchase_costs
             /\ installed_costs' = installed_costs
             /\ heat_utilities' = heat_utilities
             /\ IsFerm => evaporation_duty' = evaporation_duty
       /\ last' = "_cost" =>
             /\ outs' = outs
             /\ design_results' = design_results
             /\ evaporation_duty' = evaporation_duty
             /\ IsFerm => heat_utilities' = heat_utilities
      ]_vars

\* all three steps have acted: streams, design results and costs are stored
C10_Witness ==
    /\ IsFerm /\ last = "_cost" /\ err = "none"
    /\ RGt(glucose_reacted(ins[1], params), Zero)
    /\ outs[1].imol # ins[1].imol
    /\ outs[1].imol # NoFlow
    /\ HasKeys(design_results, {"Reactor volume"})
    /\ HasKeys(purchase_costs, {"Fermentation reactors"})


-----------------------------------------------------------------------------
(* C11: sizing and per-reactor split of the fermentation block             *)

\* the single-term cost c * b**(13/20), written out
OneTerm(c, b) ==
    [nonreal |-> FALSE,
     terms |-> [k \in {IF b = One THEN KeyOne ELSE <<b, Rat(65, 100)>>} |-> c]]

\* C11: the sizing step stores reactor volume = outbound volumetric flow x tau
\* and the count n = ceil(volume / 100); for every volume > 0 the count
\* satisfies (n - 1) x 100 < volume <= n x 100 and the per-reactor volume
\* volume / n the costing step uses is at most 100; the costing step stores
\* purchase = n x 200000 x (volume / n / 100)^0.65 and installed = 2.8 x purchase.
C11_Sizing ==
    IsFerm =>
      /\ last = "_design" =>
            /\ HasKeys(design_results, {"Reactor volume", "Number of reactors"})
            /\ design_results["Reactor volume"] = RMul(F_vol(outs[1]), params.tau)
            /\ design_results["Number of reactors"] =
                  Ceil(RDiv(design_results["Reactor volume"], Int2Rat(100)))
      /\ (HasKeys(design_results, {"Reactor volume", "Number of reactors"})
            /\ RGt(design_results["Reactor volume"], Zero)) =>
            LET V == design_results["Reactor volume"]
                n == design_results["Number of reactors"]
                hundred == Int2Rat(100)
            IN  /\ n[2] = 1 /\ n[1] >= 1
                /\ RLt(RMul(RSub(n, One), hundred), V)
                /\ RLe(V, RMul(n, hundred))
                /\ RLe(RDiv(V, n), hundred)
                /\ (last = "_cost") =>
                      /\ err = "none"
                      /\ purchase_costs["Fermentation reactors"] =
                            OneTerm(RMul(n, Int2Rat(200000)),
                                    RDiv(RDiv(V, n), hundred))
                      /\ installed_costs["Fermentation reactors"] =
                            OneTerm(RMul(RMul(n, Int2Rat(200000)), Rat(28, 10)),
                                    RDiv(RDiv(V, n), hundred))

\* a costed block with several reactors, none of them full
C11_Witness ==
    /\ IsFerm /\ last = "_cost" /\ err = "none"
    /\ HasKeys(design_results, {"Reactor volume", "Number of reactors"})
    /\ RGt(design_results["Number of reactors"], One)
    /\ RLt(design_results["Reactor volume"],
           RMul(design_results["Number of reactors"], Int2Rat(100)))
    /\ HasKeys(purchase_costs, {"Fermentation reactors"})


-----------------------------------------------------------------------------
(* C12: the evaporator's utility declaration                               *)

\* exactly one low-pressure-steam record at 423.15 K carrying duty q
OneSteamRecord(hus, q) ==
    /\ Len(hus) = 1
    /\ hus[1].agent = "low_pressure_steam"
    /\ hus[1].T_in = Rat(42315, 100)
    /\ hus[1].duty = q

\* C12: after a balance, sizing, costing sequence the evaporator's
\* heat-utility list is exactly one record: low-pressure steam, supply
\* temperature 423.15 K, duty = the Q the sizing step computed from the
\* current vapor stream (water evaporated x 40.66 x 1000 / 3600); and the
\* heat-transfer area the sizing step stored is Q / (0.5 x 30).
C12_Utility ==
    IsEvap =>
      LET R  == Round(Self)
          q  == RDiv(RMul(RMul(R.outs[2].imol["Water"], Rat(4066, 100)),
                          Int2Rat(1000)), Int2Rat(3600))
      IN  /\ R.err = "none"
          /\ R.outs[2].imol["Water"] = RMul(ins[1].imol["Water"], params.V)
          /\ OneSteamRecord(R.heat_utilities, q)
          /\ R.evaporation_duty = [set |-> TRUE, val |-> q]
          /\ R.design_results["Heat transfer area"] = RDiv(q, Int2Rat(15))
          /\ (last = "_cost" /\ err = "none") =>
                /\ OneSteamRecord(heat_utilities, evaporation_duty.val)
                /\ design_results["Heat transfer area"] =
                      RDiv(evaporation_duty.val, Int2Rat(15))

\* a balance, sizing, costing sequence has just ended with a positive duty
C12_Witness ==
    /\ IsEvap /\ last = "_cost" /\ err = "none"
    /\ Round(Self) = Self
    /\ Len(heat_utilities) = 1
    /\ RGt(heat_utilities[1].duty, Zero)
    /\ heat_utilities[1].duty = Q(outs[2])


-----------------------------------------------------------------------------
(* C13: the checkpoint copy of the fermentation block against the          *)
(* canonical one                                                           *)

\* the same unit, had it been built from src/units/fermentation.py
Canonical == [Self EXCEPT !.cls = "Fermentation"]

SameFlows(a, b, species) == \A s \in species : a.imol[s] = b.imol[s]

\* C13: for every inbound stream, conversion and biomass_yield the balance
\* step of the checkpoint copy gives the same outbound molar flows of
\* Glucose, LacticAcid, Ethanol and WWTsludge as the balance step of the
\* canonical block, and its sizing and costing steps the same results.
C13_SameLogic ==
    cls = "FermentationCheckpoint" =>
      /\ last = "_run" =>
            SameFlows(outs[1], _run(Canonical).outs[1],
                      {"Glucose", "LacticAcid", "Ethanol", "WWTsludge"})
      /\ (last = "_cost" /\ Round(Self) = Self) =>
            LET theirs == Round(Canonical)
            IN  /\ design_results = theirs.design_results
                /\ purchase_costs = theirs.purchase_costs
                /\ installed_costs = theirs.installed_costs
                /\ err = theirs.err


-----------------------------------------------------------------------------
(* C14: non-negativity under valid parameters                              *)

NonNegFlows(streams) ==
    \A i \in DOMAIN streams : \A s \in Species : RLe(Zero, streams[i].imol[s])

NonNegResults(d) == \A k \in DOMAIN d : RLe(Zero, d[k])

\* a cost that is a real number >= 0: each term c * b**e has b > 0
NonNegCost(x) == ~ x.nonreal /\ \A k \in DOMAIN x.terms : RLe(Zero, x.terms[k])

NonNegCosts(d) == \A k \in DOMAIN d : NonNegCost(d[k])

\* inbound flows >= 0, conversion in [0, 1], biomass_yield in [0, 0.98], V in [0, 1]
ValidInputs ==
    /\ NonNegFlows(ins)
    /\ IsFerm => ValidFerm
    /\ IsEvap => InUnit(params.V)

AllNonNegative ==
    /\ NonNegFlows(outs)
    /\ NonNegResults(design_results)
    /\ NonNegCosts(baseline_purchase_costs)
    /\ NonNegCosts(purchase_costs)
    /\ NonNegCosts(installed_costs)

\* C14 as stated: with non-negative inbound flows, conversion in [0, 1],
\* biomass_yield in [0, 0.98] and V in [0, 1], every outbound molar flow
\* after the balance step, every design result after sizing and every
\* purchase and installed cost after costing is non-negative.
C14_Original == ValidInputs => AllNonNegative

\* C14, amended: the same, for a fermentation block whose tau is >= 0 as well
C14_NonNegative ==
    (ValidInputs /\ (IsFerm => RLe(Zero, params.tau))) => AllNonNegative

\* both blocks are reached with valid parameters, positive flows out and
\* positive costs stored
C14_Witness ==
    /\ ValidInputs /\ last = "_cost" /\ err = "none"
    /\ IsFerm => RGt(params.tau, Zero) /\ RGt(outs[1].imol["LacticAcid"], Zero)
    /\ IsEvap => RGt(outs[2].imol["Water"], Zero)
    /\ \E k \in DOMAIN design_results : RGt(design_results[k], Zero)
    /\ \E k \in DOMAIN installed_costs : installed_costs[k] \notin {PZero, NonReal}


-----------------------------------------------------------------------------
(* C15: the evaporator's costing step depends on an earlier sizing step    *)

\* a sizing step has run on this instance: only _design creates the attribute
Sized == evaporation_duty.set

NothingCosted ==
    /\ baseline_purchase_costs = EmptyDict
    /\ purchase_costs = EmptyDict
    /\ installed_costs = EmptyDict
    /\ heat_utilities = <<>>

\* C15: the evaporator's costing step yields a cost and a utility record
\* only if a sizing step has run on the instance before it; invoked on a
\* freshly constructed block it fails and produces no cost; and in every
\* sequence of steps the duty a costing step declares is the Q stored by
\* the most recent sizing step.
C15_Ordering ==
    /\ [](IsEvap =>
            /\ ~ Sized => NothingCosted /\ design_results = EmptyDict
            /\ (last = "_cost" /\ ~ Sized) => err = "KeyError"
            /\ (last = "_cost" /\ Sized) =>
                  /\ err = "none"
                  /\ HasKeys(purchase_costs, {"Evaporator"})
                  /\ Len(heat_utilities) = 1
                  /\ heat_utilities[1].duty = evaporation_duty.val)
    /\ [][IsEvap =>
            /\ last' = "_design" =>
                  evaporation_duty' = [set |-> TRUE, val |-> Q(outs[2])]
            /\ last' # "_design" => evaporation_duty' = evaporation_duty
            /\ (last' = "_cost" /\ Sized) =>
                  heat_utilities'[1].duty = evaporation_duty.val
         ]_vars

\* costing was invoked on a block no sizing step has touched, and failed
C15_Witness ==
    /\ IsEvap /\ last = "_cost" /\ err = "KeyError"
    /\ ~ Sized /\ NothingCosted
    /\ RGt(outs[2].imol["Water"], Zero)

\* the declared duty is that of the latest sizing step while the vapor
\* stream has moved on since
C15_WitnessStale ==
    /\ IsEvap /\ last = "_cost" /\ err = "none"
    /\ heat_utilities[1].duty = evaporation_duty.val
    /\ heat_utilities[1].duty # Q(outs[2])


-----------------------------------------------------------------------------
(* C16: the driver's report and zero production figures                    *)

ProductionFigures ==
    {"glucose_consumed", "la_production", "annual_production", "annual_revenue"}

\* C16: every quotient of the report whose denominator is the glucose
\* consumed, the lactic-acid production rate, the annual production or the
\* annual revenue is computed only when that denominator is greater than
\* zero, so a simulation with zero lactic-acid production completes its
\* report without a division-by-zero error.  (Stated for flowing product and
\* broth streams, whose total mass flows the report divides by as well.)
C16_Guarded ==
    report.pc # "off" =>
      /\ \A z \in report.divided_by_zero : z[2] \notin ProductionFigures
      /\ (report.la_production = Zero /\ RGt(report.product_F_mass, Zero)
            /\ RGt(report.broth_F_mass, Zero)) => report.err = "none"

====
